---- MODULE Spec2Model ----
(***************************************************************************)
(* Model of the Reddit content downloader: the batch loop of               *)
(* reddit-main.py (main), RedditHandler.get_subreddit_posts and the        *)
(* per-post pipeline RedditHandler.download_content, one action per step   *)
(* of the pipeline.  External capabilities (file system, Reddit, OpenAI,   *)
(* HTTP) are nondeterministic: every call may succeed or raise.            *)
(*                                                                         *)
(* Spec is the batch run.  Helpers whose inputs the batch run would make   *)
(* too many are applied on their own, each under its own specification:    *)
(* SpecImage (_download_image, step by step), SpecClassify (the media      *)
(* if/elif chain), SpecRank (the comments of a converted post),            *)
(* SpecSummary (_generate_summary) and SpecPolicy (validation and fetch of *)
(* one record of subreddits.yaml).  SpecPublish is a run of the scheduler  *)
(* main.py: the producer as a process that stages post directories, then   *)
(* the publisher bluesky-main.py with post_finder.find_post_and_media.     *)
(***************************************************************************)
EXTENDS Integers, Sequences, FiniteSets, TLC

\* ------------------------------------------------------------------ bounds
\* raw records under 'subreddits' in subreddits.yaml
MaxFeeds == 2
\* submissions one listing yields
MaxPosts == 2

\* ------------------------------------------------------------ configuration
\* str(None) stands for an absent optional string
None == "None"

valid_filter_types == {"hot", "new", "top", "rising"}

valid_time_filters == {"all", "day", "hour", "month", "week", "year"}

\* validate as it would be without the time filter rule for top posts
validate_top_unchecked(c) ==
    IF c.name = "" THEN "Subreddit name is required"
    ELSE IF c.filter_type \notin valid_filter_types THEN "Invalid filter type"
    ELSE IF c.limit < 1 THEN "Limit must be greater than 0"
    ELSE IF c.batch_size < 1 THEN "Batch size must be greater than 0"
    ELSE IF c.timeout < 1 THEN "Timeout must be greater than 0"
    ELSE IF c.max_comments < 0 THEN "Max comments must be greater than or equal to 0"
    ELSE "ok"

\* validate as it would be with a rule rejecting a time filter on the other
\* filter types
validate_window_only_for_top(c) ==
    IF c.name = "" THEN "Subreddit name is required"
    ELSE IF c.filter_type \notin valid_filter_types THEN "Invalid filter type"
    ELSE IF c.filter_type = "top"
            /\ (c.time_filter = None \/ c.time_filter \notin valid_time_filters)
         THEN "Time filter is required for top posts"
    ELSE IF c.filter_type # "top" /\ c.time_filter # None
         THEN "Time filter is only valid for top posts"
    ELSE IF c.limit < 1 THEN "Limit must be greater than 0"
    ELSE IF c.batch_size < 1 THEN "Batch size must be greater than 0"
    ELSE IF c.timeout < 1 THEN "Timeout must be greater than 0"
    ELSE IF c.max_comments < 0 THEN "Max comments must be greater than or equal to 0"
    ELSE "ok"

\* SubredditConfig.validate: "ok", or the ValidationError it raises
validate(c) ==
    IF c.name = "" THEN "Subreddit name is required"
    ELSE IF c.filter_type \notin valid_filter_types THEN "Invalid filter type"
    ELSE IF c.filter_type = "top"
            /\ (c.time_filter = None \/ c.time_filter \notin valid_time_filters)
         THEN "Time filter is required for top posts"
    ELSE IF c.limit < 1 THEN "Limit must be greater than 0"
    ELSE IF c.batch_size < 1 THEN "Batch size must be greater than 0"
    ELSE IF c.timeout < 1 THEN "Timeout must be greater than 0"
    ELSE IF c.max_comments < 0 THEN "Max comments must be greater than or equal to 0"
    ELSE "ok"

\* the fields of a SubredditConfig, with the dataclass defaults for the
\* fields the batch loop never varies
SubredditConfig(name, filter_type, time_filter, limit, dm, dc, mc, snm) ==
    [name |-> name, filter_type |-> filter_type, time_filter |-> time_filter,
     limit |-> limit, download_media |-> dm, download_comments |-> dc,
     max_comments |-> mc, skip_no_media |-> snm, batch_size |-> 5, timeout |-> 30]

\* raw records that pass validation: every combination of the four policy flags
ValidRecords ==
    { [keys_ok |-> TRUE,
       fields |-> SubredditConfig("pics", "hot", None, 10, dm, dc, mc, snm)] :
        dm \in BOOLEAN, dc \in BOOLEAN, mc \in {0, 1}, snm \in BOOLEAN }

\* raw records validate() rejects, one per rule
RejectedRecords ==
    { [keys_ok |-> TRUE, fields |-> SubredditConfig("", "hot", None, 10, TRUE, FALSE, 5, TRUE)],
      [keys_ok |-> TRUE, fields |-> SubredditConfig("pics", "best", None, 10, TRUE, FALSE, 5, TRUE)],
      [keys_ok |-> TRUE, fields |-> SubredditConfig("pics", "top", None, 10, TRUE, FALSE, 5, TRUE)],
      [keys_ok |-> TRUE, fields |-> SubredditConfig("pics", "hot", None, 0, TRUE, FALSE, 5, TRUE)],
      [keys_ok |-> TRUE, fields |-> SubredditConfig("pics", "hot", None, 10, TRUE, FALSE, 0 - 1, TRUE)] }

\* a raw record SubredditConfig(**subreddit_data) cannot be built from (a
\* required field missing, an unknown key): the constructor raises TypeError
MalformedRecords ==
    { [keys_ok |-> FALSE, fields |-> SubredditConfig("pics", "hot", None, 10, TRUE, FALSE, 5, TRUE)] }

RawRecords == ValidRecords \cup RejectedRecords \cup MalformedRecords

\* ------------------------------------------------------------------- posts
\* a URL by the features the pipeline reads: present (not None), matching a
\* youtube/imgur/redgifs pattern, the extension of its path, and whether
\* urlparse accepts it (urlparse raises ValueError on e.g. "http://[x")
Url(present, external, ext, parses) ==
    [present |-> present, external |-> external, ext |-> ext, parses |-> parses]

NoUrl == Url(FALSE, FALSE, "", TRUE)

ImageUrl == Url(TRUE, FALSE, ".jpg", TRUE)

BrokenUrl == Url(TRUE, FALSE, "", FALSE)

BatchUrls == {NoUrl, ImageUrl, BrokenUrl}

\* submission.comments.list(): the flattened discussion
BatchDiscussions ==
    { <<>>, << [stickied |-> TRUE, score |-> 5] >>, << [stickied |-> FALSE, score |-> 3] >> }

\* submission.gallery_data: None, or the media ids of its items
NoGallery == [present |-> FALSE, items |-> <<>>]

\* a PRAW submission; broken: reading one of its attributes raises during
\* conversion
Submissions ==
    [url : BatchUrls, comments : BatchDiscussions, broken : BOOLEAN,
     is_gallery : {FALSE}, gallery_data : {NoGallery}]

\* the submission s, carrying id i
WithId(s, i) ==
    [id |-> i, url |-> s.url, comments |-> s.comments, broken |-> s.broken,
     is_gallery |-> s.is_gallery, gallery_data |-> s.gallery_data]

RECURSIVE SelectSeq2(_, _)
\* the elements of s that are not stickied, in order
SelectSeq2(s, i) ==
    IF i > Len(s) THEN <<>>
    ELSE IF s[i].stickied THEN SelectSeq2(s, i + 1)
    ELSE <<s[i]>> \o SelectSeq2(s, i + 1)

RECURSIVE InsertDescUnstable(_, _)
\* InsertDesc as it would be with an unstable sort: x goes ahead of the
\* elements of equal score
InsertDescUnstable(s, x) ==
    IF s = <<>> THEN <<x>>
    ELSE IF Head(s).score > x.score THEN <<Head(s)>> \o InsertDescUnstable(Tail(s), x)
    ELSE <<x>> \o s

RECURSIVE InsertDesc(_, _)
\* x inserted into the score-descending sequence s after every element of
\* equal score (list.sort is stable)
InsertDesc(s, x) ==
    IF s = <<>> THEN <<x>>
    ELSE IF Head(s).score >= x.score THEN <<Head(s)>> \o InsertDesc(Tail(s), x)
    ELSE <<x>> \o s

RECURSIVE SortDesc(_)
SortDesc(s) ==
    IF s = <<>> THEN <<>>
    ELSE InsertDesc(SortDesc(SubSeq(s, 1, Len(s) - 1)), s[Len(s)])

Min(a, b) == IF a < b THEN a ELSE b

\* the comments _convert_submission_to_post stores on the post
top_comments(submission, config) ==
    IF config.download_comments /\ config.max_comments > 0
    THEN LET all_comments == SortDesc(SelectSeq2(submission.comments, 1))
         IN  SubSeq(all_comments, 1, Min(config.max_comments, Len(all_comments)))
    ELSE <<>>

convert_submission_to_post(submission, config) ==
    [id |-> submission.id, url |-> submission.url,
     comments |-> top_comments(submission, config),
     is_gallery |-> submission.is_gallery, gallery_data |-> submission.gallery_data]

\* the listings the source can yield: up to MaxPosts submissions, the i-th
\* with id i
Listings ==
    UNION { { [i \in 1..n |-> WithId(l[i], i)] : l \in [1..n -> Submissions] } :
            n \in 0..MaxPosts }

\* get_subreddit_posts: source.available is FALSE when PRAW raises; the result
\* is the raised exception or the converted posts, in listing order
get_subreddit_posts(config, source) ==
    IF ~source.available
    THEN [raised |-> TRUE, error |-> "SubredditNotFoundError", posts |-> <<>>]
    ELSE IF config.filter_type = "top" /\ config.time_filter = None
    THEN [raised |-> TRUE, error |-> "InvalidTimeFilterError", posts |-> <<>>]
    ELSE IF config.filter_type \notin valid_filter_types
    THEN [raised |-> TRUE, error |-> "InvalidFilterTypeError", posts |-> <<>>]
    ELSE IF \E i \in 1..Len(source.listing) : source.listing[i].broken
    THEN [raised |-> TRUE, error |-> "Exception", posts |-> <<>>]
    ELSE [raised |-> FALSE, error |-> None,
          posts |-> [i \in 1..Len(source.listing) |->
                        convert_submission_to_post(source.listing[i], config)]]

\* ------------------------------------------------------------------- state
VARIABLES
    pc,                \* position of the run in main / download_content
    rawCount,          \* raw records of subreddits.yaml read so far
    subreddits,        \* main: validated configs the feed loop has not reached yet
    validated,         \* how many records passed validation
    fetched,           \* how many feeds get_subreddit_posts was called for
    config,            \* main: the feed loop's variable
    listing,           \* current feed: id and convertibility of what the source yielded
    posts,             \* main: posts of the feed the post loop has not reached yet
    post,              \* main: the post loop's variable
    calls,             \* current feed: ids download_content was invoked with
    failed,            \* current feed: calls that ended in success=False or raised
    post_dir,          \* the current post's directory on disk: existence, content
    downloaded_files,  \* download_content local
    errors,            \* download_content local
    has_media,         \* download_content local
    exc,               \* the exception travelling to the outer handler
    result,            \* how the current download_content call ended
    retrievals,        \* media retrieval calls made for the current post
    unit,              \* a helper studied on its own: its name and its arguments
    out                \* that helper's progress and result

vars == <<pc, rawCount, subreddits, validated, fetched, config, listing, posts,
          post, calls, failed, post_dir, downloaded_files, errors, has_media, exc,
          result, retrievals, unit, out>>

\* what download_content leaves alone
mainVars == <<rawCount, subreddits, validated, fetched, config, listing, posts,
              post, calls, failed>>

\* what main leaves alone between two download_content calls
callVars == <<post_dir, downloaded_files, errors, has_media, exc, result, retrievals>>

\* what the batch run leaves alone: the helpers studied on their own
unitVars == <<unit, out>>

\* what a helper studied on its own leaves alone
batchVars == <<pc, mainVars, callVars>>

NoUnit == [fn |-> None]

NoOut == [at |-> None]

NoConfig == [name |-> None]

NoPost == [id |-> 0]

NoDir == [exists |-> FALSE, files |-> {}]

Pending == [status |-> "pending", success |-> FALSE, downloaded_files |-> <<>>, errors |-> <<>>]

\* DownloadResult(success, downloaded_files, errors)
DownloadResult(success, files, errs) ==
    [status |-> "returned", success |-> success, downloaded_files |-> files, errors |-> errs]

\* the call ended with an exception reaching the caller
Raised(e) ==
    [status |-> "raised", success |-> FALSE, downloaded_files |-> <<>>, errors |-> <<e>>]

\* the batch run before its first step
BatchIdle ==
    /\ pc = "validate"
    /\ rawCount = 0
    /\ subreddits = <<>>
    /\ validated = 0
    /\ fetched = 0
    /\ config = NoConfig
    /\ listing = <<>>
    /\ posts = <<>>
    /\ post = NoPost
    /\ calls = <<>>
    /\ failed = 0
    /\ post_dir = NoDir
    /\ downloaded_files = <<>>
    /\ errors = <<>>
    /\ has_media = FALSE
    /\ exc = None
    /\ result = Pending
    /\ retrievals = 0

Init ==
    /\ BatchIdle
    /\ unit = NoUnit
    /\ out = NoOut

\* ------------------------------------------------------ reddit-main.main
\* one iteration of the validation loop: the next raw record is built into a
\* SubredditConfig and validated; a ValidationError skips the record, any
\* other exception leaves the loop and reaches the outer handler, which
\* re-raises
ValidateRecord ==
    /\ pc = "validate"
    /\ rawCount < MaxFeeds
    /\ \E subreddit_data \in RawRecords :
         /\ rawCount' = rawCount + 1
         /\ IF ~subreddit_data.keys_ok
            THEN /\ pc' = "aborted"
                 /\ UNCHANGED <<subreddits, validated>>
            ELSE IF validate(subreddit_data.fields) = "ok"
            THEN /\ pc' = pc
                 /\ subreddits' = Append(subreddits, subreddit_data.fields)
                 /\ validated' = validated + 1
            ELSE /\ pc' = pc
                 /\ UNCHANGED <<subreddits, validated>>
    /\ UNCHANGED <<fetched, config, listing, posts, post, calls, failed, callVars>>
    /\ UNCHANGED unitVars

\* the raw records are exhausted: the feed loop starts
EndValidation ==
    /\ pc = "validate"
    /\ pc' = "feeds"
    /\ UNCHANGED <<rawCount, subreddits, validated, fetched, config, listing,
                   posts, post, calls, failed, callVars>>
    /\ UNCHANGED unitVars

\* what the source yielded, as the feed's bookkeeping keeps it
Yielded(l) == [i \in 1..Len(l) |-> [id |-> l[i].id, broken |-> l[i].broken]]

\* one iteration of `for config in subreddits` up to the post loop:
\* get_subreddit_posts for the next config
ProcessSubreddit ==
    /\ pc = "feeds"
    /\ subreddits # <<>>
    /\ config' = Head(subreddits)
    /\ subreddits' = Tail(subreddits)
    /\ fetched' = fetched + 1
    /\ calls' = <<>>
    /\ failed' = 0
    /\ \E available \in BOOLEAN, l \in Listings :
         LET got == get_subreddit_posts(config', [available |-> available, listing |-> l])
         IN  /\ listing' = IF available THEN Yielded(l) ELSE <<>>
             /\ posts' = got.posts
             /\ pc' = IF got.raised THEN "feed_failed" ELSE "posts"
    /\ UNCHANGED <<rawCount, validated, post, callVars>>
    /\ UNCHANGED unitVars

\* the feed-level `except Exception`: log and continue with the next feed
SkipSubreddit ==
    /\ pc = "feed_failed"
    /\ pc' = "feeds"
    /\ config' = NoConfig
    /\ listing' = <<>>
    /\ UNCHANGED <<rawCount, subreddits, validated, fetched, posts, post, calls,
                   failed, callVars>>
    /\ UNCHANGED unitVars

\* every validated feed has been handled: "Download completed!"
RunCompleted ==
    /\ pc = "feeds"
    /\ subreddits = <<>>
    /\ pc' = "done"
    /\ UNCHANGED <<mainVars, callVars>>
    /\ UNCHANGED unitVars

\* the post loop calls download_content for the next post
CallDownloadContent ==
    /\ pc = "posts"
    /\ posts # <<>>
    /\ post' = Head(posts)
    /\ posts' = Tail(posts)
    /\ calls' = Append(calls, Head(posts).id)
    /\ pc' = "date_dir"
    /\ UNCHANGED <<rawCount, subreddits, validated, fetched, config, listing,
                   failed, callVars>>
    /\ UNCHANGED unitVars

\* the post loop is exhausted: on to the next feed
FeedDone ==
    /\ pc = "posts"
    /\ posts = <<>>
    /\ pc' = "feeds"
    /\ config' = NoConfig
    /\ listing' = <<>>
    /\ calls' = <<>>
    /\ failed' = 0
    /\ UNCHANGED <<rawCount, subreddits, validated, fetched, posts, post, callVars>>
    /\ UNCHANGED unitVars

\* LogResult as it would be without the inner try/except of the post loop:
\* an exception raised by download_content ends the feed's post loop
LogResultUnguarded ==
    /\ pc = "exit"
    /\ pc' = "posts"
    /\ post' = NoPost
    /\ posts' = IF result.status = "raised" THEN <<>> ELSE posts
    /\ post_dir' = NoDir
    /\ downloaded_files' = <<>>
    /\ errors' = <<>>
    /\ has_media' = FALSE
    /\ exc' = None
    /\ result' = Pending
    /\ retrievals' = 0
    /\ failed' = IF result.success THEN failed ELSE failed + 1
    /\ UNCHANGED <<rawCount, subreddits, validated, fetched, config, listing, calls>>
    /\ UNCHANGED unitVars

\* the call has ended: main logs the result, or catches the exception and
\* continues; either way the loop moves to the next post
LogResult ==
    /\ pc = "exit"
    /\ pc' = "posts"
    /\ post' = NoPost
    /\ post_dir' = NoDir
    /\ downloaded_files' = <<>>
    /\ errors' = <<>>
    /\ has_media' = FALSE
    /\ exc' = None
    /\ result' = Pending
    /\ retrievals' = 0
    /\ failed' = IF result.success THEN failed ELSE failed + 1
    /\ UNCHANGED <<rawCount, subreddits, validated, fetched, config, listing,
                   posts, calls>>
    /\ UNCHANGED unitVars

\* ------------------------------------------- RedditHandler.download_content
TextArtifacts == {"post_info.txt", "title.txt", "url.txt"}

\* the discussion step's condition: `config.download_comments and post.comments`
saves_comments == config.download_comments /\ post.comments # <<>>

\* the discard condition: `config.skip_no_media and not has_media`
discards == config.skip_no_media /\ ~has_media

\* a file of the post directory is opened for writing and written
written(name) == [exists |-> TRUE, files |-> post_dir.files \cup {name}]

\* _get_date_based_dir, before the try: os.makedirs may raise to the caller
GetDateBasedDir ==
    /\ pc = "date_dir"
    /\ \E ok \in BOOLEAN :
         IF ok THEN pc' = "post_dir" /\ UNCHANGED result
               ELSE pc' = "exit" /\ result' = Raised("OSError")
    /\ UNCHANGED <<mainVars, post_dir, downloaded_files, errors, has_media, exc,
                   retrievals>>
    /\ UNCHANGED unitVars

\* os.makedirs(post_dir, exist_ok=True), before the try
MakePostDir ==
    /\ pc = "post_dir"
    /\ \E ok \in BOOLEAN :
         IF ok THEN /\ pc' = "post_info"
                    /\ post_dir' = [exists |-> TRUE, files |-> {}]
                    /\ UNCHANGED result
               ELSE /\ pc' = "exit"
                    /\ result' = Raised("OSError")
                    /\ UNCHANGED post_dir
    /\ UNCHANGED <<mainVars, downloaded_files, errors, has_media, exc, retrievals>>
    /\ UNCHANGED unitVars

\* a text artifact is written and recorded, or the write raises into the
\* outer handler
WriteArtifact(at, name, next) ==
    /\ pc = at
    /\ \E ok \in BOOLEAN :
         IF ok THEN /\ post_dir' = written(name)
                    /\ downloaded_files' = Append(downloaded_files, name)
                    /\ pc' = next
                    /\ UNCHANGED exc
               ELSE /\ exc' = "OSError"
                    /\ pc' = "except"
                    /\ UNCHANGED <<post_dir, downloaded_files>>
    /\ UNCHANGED <<mainVars, errors, has_media, result, retrievals>>
    /\ UNCHANGED unitVars

WritePostInfo == WriteArtifact("post_info", "post_info.txt", "title")

WriteTitle == WriteArtifact("title", "title.txt", "url")

\* WriteUrl as it would be with the url.txt write wrapped in its own
\* try/except: a failed write is swallowed and the pipeline goes on
WriteUrlSwallowed ==
    /\ pc = "url"
    /\ \E ok \in BOOLEAN :
         IF ok /\ post.url.present
         THEN /\ post_dir' = written("url.txt")
              /\ downloaded_files' = Append(downloaded_files, "url.txt")
         ELSE UNCHANGED <<post_dir, downloaded_files>>
    /\ pc' = "comments"
    /\ UNCHANGED <<mainVars, errors, has_media, exc, result, retrievals>>
    /\ UNCHANGED unitVars

\* url.txt: f.write(post.url) raises TypeError when post.url is None, after
\* open() has created the file
WriteUrl ==
    /\ pc = "url"
    /\ IF post.url.present
       THEN WriteArtifact("url", "url.txt", "comments")
       ELSE
         /\ \E opened \in BOOLEAN :
              IF opened THEN post_dir' = written("url.txt") /\ exc' = "TypeError"
                        ELSE UNCHANGED post_dir /\ exc' = "OSError"
         /\ pc' = "except"
         /\ UNCHANGED <<mainVars, downloaded_files, errors, has_media, result,
                        retrievals, unitVars>>

\* comments.txt, only `if config.download_comments and post.comments`
SaveComments ==
    /\ pc = "comments"
    /\ IF saves_comments
       THEN WriteArtifact("comments", "comments.txt", "summary")
       ELSE
         /\ pc' = "media_dir"
         /\ UNCHANGED <<mainVars, post_dir, downloaded_files, errors, has_media,
                        exc, result, retrievals, unitVars>>

\* _generate_summary never raises (it falls back to the title); then
\* post-summary.txt is written
SaveSummary == WriteArtifact("summary", "post-summary.txt", "media_dir")

\* `if post.url:` os.makedirs(media_dir), inside the outer try only
MakeMediaDir ==
    /\ pc = "media_dir"
    /\ IF post.url.present
       THEN \E ok \in BOOLEAN :
              IF ok THEN /\ post_dir' = written("media")
                         /\ pc' = "media"
                         /\ UNCHANGED exc
                    ELSE /\ exc' = "OSError"
                         /\ pc' = "except"
                         /\ UNCHANGED post_dir
       ELSE /\ pc' = "finalize"
            /\ UNCHANGED <<post_dir, exc>>
    /\ UNCHANGED <<mainVars, downloaded_files, errors, has_media, result, retrievals>>
    /\ UNCHANGED unitVars

\* media_strategy as it would be with the gallery test ahead of the image
\* test
media_strategy_gallery_first(p) ==
    IF p.url.external THEN "yt_dlp"
    ELSE IF p.is_gallery /\ p.gallery_data.present THEN "gallery"
    ELSE IF ~p.url.parses THEN "raise"
    ELSE IF p.url.ext \in {".jpg", ".jpeg", ".png", ".gif"} THEN "image"
    ELSE IF p.url.ext \in {".mp4", ".webm", ".mov"} THEN "video"
    ELSE "none"

\* the strategy the if/elif chain of the inner try selects, or "raise" when
\* urlparse rejects the URL in _is_image_url
media_strategy(p) ==
    IF p.url.external THEN "yt_dlp"
    ELSE IF ~p.url.parses THEN "raise"
    ELSE IF p.url.ext \in {".jpg", ".jpeg", ".png", ".gif"} THEN "image"
    ELSE IF p.is_gallery /\ p.gallery_data.present THEN "gallery"
    ELSE IF p.url.ext \in {".mp4", ".webm", ".mov"} THEN "video"
    ELSE "none"

\* RetrieveMedia as it would be without the inner try/except: the ValueError
\* of urlparse travels to the outer handler
RetrieveMediaUnguarded ==
    /\ pc = "media"
    /\ LET strategy == media_strategy(post)
       IN  IF strategy = "raise"
           THEN /\ exc' = "ValueError"
                /\ pc' = "except"
                /\ UNCHANGED <<post_dir, downloaded_files, has_media, retrievals>>
           ELSE IF strategy = "none"
           THEN /\ pc' = "finalize"
                /\ UNCHANGED <<post_dir, downloaded_files, has_media, retrievals, exc>>
           ELSE /\ retrievals' = retrievals + 1
                /\ pc' = "finalize"
                /\ \E file_path \in {None, "media/file"} :
                     IF file_path # None
                     THEN /\ post_dir' = written(file_path)
                          /\ downloaded_files' = Append(downloaded_files, file_path)
                          /\ has_media' = TRUE
                     ELSE UNCHANGED <<post_dir, downloaded_files, has_media>>
                /\ UNCHANGED exc
    /\ UNCHANGED <<mainVars, errors, result, unitVars>>

\* the inner try: one retrieval call by the selected strategy; each
\* _download_* catches its own failures and returns nothing
RetrieveMedia ==
    /\ pc = "media"
    /\ LET strategy == media_strategy(post)
       IN  IF strategy = "raise"
           THEN /\ errors' = Append(errors, "Media download error: ValueError")
                /\ UNCHANGED <<post_dir, downloaded_files, has_media, retrievals>>
           ELSE IF strategy = "none"
           THEN UNCHANGED <<post_dir, downloaded_files, errors, has_media, retrievals>>
           ELSE /\ retrievals' = retrievals + 1
                /\ \E file_path \in {None, "media/file"} :
                     IF file_path # None
                     THEN /\ post_dir' = written(file_path)
                          /\ downloaded_files' = Append(downloaded_files, file_path)
                          /\ has_media' = TRUE
                     ELSE UNCHANGED <<post_dir, downloaded_files, has_media>>
                /\ UNCHANGED errors
    /\ pc' = "finalize"
    /\ UNCHANGED <<mainVars, exc, result>>
    /\ UNCHANGED unitVars

\* Finalize as it would be without the shutil.rmtree call: the empty success
\* is returned and the directory stays
FinalizeKeepsDir ==
    /\ pc = "finalize"
    /\ result' = IF discards THEN DownloadResult(TRUE, <<>>, <<>>)
                            ELSE DownloadResult(TRUE, downloaded_files, errors)
    /\ pc' = "exit"
    /\ UNCHANGED <<mainVars, post_dir, downloaded_files, errors, has_media, exc,
                   retrievals>>
    /\ UNCHANGED unitVars

\* Finalize as it would be with the discard test inverted to
\* `not config.skip_no_media`
FinalizeInverted ==
    /\ pc = "finalize"
    /\ IF ~config.skip_no_media /\ ~has_media
       THEN /\ post_dir' = NoDir
            /\ result' = DownloadResult(TRUE, <<>>, <<>>)
       ELSE /\ result' = DownloadResult(TRUE, downloaded_files, errors)
            /\ UNCHANGED post_dir
    /\ pc' = "exit"
    /\ UNCHANGED <<mainVars, downloaded_files, errors, has_media, exc, retrievals>>
    /\ UNCHANGED unitVars

\* "Handle skip_no_media flag": rmtree and the empty success, or the
\* accumulated outcome; a failing rmtree raises into the outer handler
Finalize ==
    /\ pc = "finalize"
    /\ IF discards
       THEN \E ok \in BOOLEAN :
              IF ok THEN /\ post_dir' = NoDir
                         /\ result' = DownloadResult(TRUE, <<>>, <<>>)
                         /\ pc' = "exit"
                         /\ UNCHANGED exc
                    ELSE /\ exc' = "OSError"
                         /\ pc' = "except"
                         /\ UNCHANGED <<post_dir, result>>
       ELSE /\ result' = DownloadResult(TRUE, downloaded_files, errors)
            /\ pc' = "exit"
            /\ UNCHANGED <<post_dir, exc>>
    /\ UNCHANGED <<mainVars, downloaded_files, errors, has_media, retrievals>>
    /\ UNCHANGED unitVars

\* HandleException as it would be without the cleanup
HandleExceptionNoCleanup ==
    /\ pc = "except"
    /\ result' = DownloadResult(FALSE, downloaded_files, <<exc>>)
    /\ pc' = "exit"
    /\ UNCHANGED <<mainVars, post_dir, downloaded_files, errors, has_media, exc,
                   retrievals>>
    /\ UNCHANGED unitVars

\* HandleException as it would be with the cleanup run whatever the policy
HandleExceptionAlwaysCleans ==
    /\ pc = "except"
    /\ post_dir' = NoDir
    /\ result' = DownloadResult(FALSE, downloaded_files, <<exc>>)
    /\ pc' = "exit"
    /\ UNCHANGED <<mainVars, downloaded_files, errors, has_media, exc, retrievals>>
    /\ UNCHANGED unitVars

\* the outer `except Exception`: cleanup under the discard condition (a
\* failing rmtree here reaches the caller), then success=False
HandleException ==
    /\ pc = "except"
    /\ IF discards /\ post_dir.exists
       THEN \E ok \in BOOLEAN :
              IF ok THEN /\ post_dir' = NoDir
                         /\ result' = DownloadResult(FALSE, downloaded_files, <<exc>>)
                    ELSE /\ result' = Raised("OSError")
                         /\ UNCHANGED post_dir
       ELSE /\ result' = DownloadResult(FALSE, downloaded_files, <<exc>>)
            /\ UNCHANGED post_dir
    /\ pc' = "exit"
    /\ UNCHANGED <<mainVars, downloaded_files, errors, has_media, exc, retrievals>>
    /\ UNCHANGED unitVars

download_content ==
    \/ GetDateBasedDir
    \/ MakePostDir
    \/ WritePostInfo
    \/ WriteTitle
    \/ WriteUrl
    \/ SaveComments
    \/ SaveSummary
    \/ MakeMediaDir
    \/ RetrieveMedia
    \/ Finalize
    \/ HandleException

Next ==
    \/ ValidateRecord
    \/ EndValidation
    \/ ProcessSubreddit
    \/ SkipSubreddit
    \/ RunCompleted
    \/ CallDownloadContent
    \/ FeedDone
    \/ LogResult
    \/ download_content

Spec == Init /\ [][Next]_vars

\* ------------------------------------------- RedditHandler._download_image
\* chunks response.iter_content yields for one body
MaxChunks == 2

\* _get_extension_from_content_type
get_extension_from_content_type(content_type) ==
    IF content_type \in {"image/jpeg", "image/jpg"} THEN ".jpg"
    ELSE IF content_type = "image/png" THEN ".png"
    ELSE IF content_type = "image/gif" THEN ".gif"
    ELSE IF content_type = "video/mp4" THEN ".mp4"
    ELSE IF content_type = "video/webm" THEN ".webm"
    ELSE ""

\* the extension of the destination file: from the content type, else from
\* the URL's path, else '.jpg'
image_ext(content_type, url_ext) ==
    IF get_extension_from_content_type(content_type) # ""
    THEN get_extension_from_content_type(content_type)
    ELSE IF url_ext # "" THEN url_ext
    ELSE ".jpg"

\* the calls studied: a URL by the extension of its path, and what the
\* server would answer
ImageCalls ==
    [fn : {"_download_image"}, url_ext : {".jpg", ".gif", ""},
     status_code : {200, 204, 404, 500},
     content_type : {"image/jpeg", "image/png", "text/html", ""},
     chunks : 1..MaxChunks]

\* the media directory holds nothing for the item
NoFile == [exists |-> FALSE, name |-> None, chunks |-> 0]

InitImage ==
    /\ BatchIdle
    /\ unit \in ImageCalls
    /\ out = [at |-> "get", failed |-> FALSE, file |-> NoFile, file_path |-> None]

\* requests.get(url, stream=True): a network failure raises
Get ==
    /\ out.at = "get"
    /\ \E ok \in BOOLEAN :
         out' = IF ok THEN [out EXCEPT !.at = "status"]
                      ELSE [out EXCEPT !.at = "except", !.failed = TRUE]
    /\ UNCHANGED <<unit, batchVars>>

\* `if response.status_code == 200`: otherwise the function falls through
\* to `return None`
CheckStatus ==
    /\ out.at = "status"
    /\ out' = IF unit.status_code = 200
              THEN [out EXCEPT !.at = "open"]
              ELSE [out EXCEPT !.at = "returned", !.failed = TRUE]
    /\ UNCHANGED <<unit, batchVars>>

\* open(filepath, 'wb') creates the destination file, empty, or raises
OpenFile ==
    /\ out.at = "open"
    /\ \E ok \in BOOLEAN :
         out' = IF ok
                THEN [out EXCEPT !.at = "chunks",
                        !.file = [exists |-> TRUE,
                                  name |-> image_ext(unit.content_type, unit.url_ext),
                                  chunks |-> 0]]
                ELSE [out EXCEPT !.at = "except", !.failed = TRUE]
    /\ UNCHANGED <<unit, batchVars>>

\* one iteration of `for chunk in response.iter_content`: the next chunk is
\* written, or the connection or the write fails and the exception leaves
\* the `with` block, which closes the file and leaves it where it is
WriteChunk ==
    /\ out.at = "chunks"
    /\ out.file.chunks < unit.chunks
    /\ \E ok \in BOOLEAN :
         out' = IF ok
                THEN [out EXCEPT !.file.chunks = @ + 1]
                ELSE [out EXCEPT !.at = "except", !.failed = TRUE]
    /\ UNCHANGED <<unit, batchVars>>

\* the body is exhausted: `return filepath`
ReturnPath ==
    /\ out.at = "chunks"
    /\ out.file.chunks = unit.chunks
    /\ out' = [out EXCEPT !.at = "returned", !.file_path = out.file.name]
    /\ UNCHANGED <<unit, batchVars>>

\* `except Exception`: the error is logged, then `return None`
LogImageError ==
    /\ out.at = "except"
    /\ out' = [out EXCEPT !.at = "returned"]
    /\ UNCHANGED <<unit, batchVars>>

NextImage ==
    \/ Get
    \/ CheckStatus
    \/ OpenFile
    \/ WriteChunk
    \/ ReturnPath
    \/ LogImageError

SpecImage == InitImage /\ [][NextImage]_vars

\* ------------------------------- download_content: the media if/elif chain
\* posts with a URL, by every feature the chain reads
ClassifiedPosts ==
    [id : {1},
     url : { Url(TRUE, external, ext, parses) :
               external \in BOOLEAN, parses \in BOOLEAN,
               ext \in {".jpg", ".jpeg", ".png", ".gif", ".mp4", ".webm", ".mov",
                        ".html", ""} },
     is_gallery : BOOLEAN,
     gallery_data : {NoGallery, [present |-> TRUE, items |-> <<"m1">>]}]

InitClassify ==
    /\ BatchIdle
    /\ unit \in [fn : {"media_strategy"}, post : ClassifiedPosts]
    /\ out = [at |-> "call", strategy |-> None]

\* the chain runs for the post and one branch is taken
Classify ==
    /\ out.at = "call"
    /\ out' = [at |-> "classified", strategy |-> media_strategy(unit.post)]
    /\ UNCHANGED <<unit, batchVars>>

NextClassify == Classify

SpecClassify == InitClassify /\ [][NextClassify]_vars

\* ------------------- _convert_submission_to_post: the comments of a post
\* comments one flattened discussion holds
MaxComments == 3

\* comment scores
Scores == {1, 7, 10}

\* a discussion: the i-th comment fetched carries i as its body
Discussion(stickied, score) ==
    [i \in DOMAIN score |-> [stickied |-> stickied[i], score |-> score[i], body |-> i]]

\* five comments, none stickied, with scores 3, 10, 10, 1, 7
ScenarioDiscussion ==
    Discussion([i \in 1..5 |-> FALSE], <<3, 10, 10, 1, 7>>)

Discussions ==
    {ScenarioDiscussion} \cup
    UNION { { Discussion(st, sc) : st \in [1..n -> BOOLEAN], sc \in [1..n -> Scores] } :
            n \in 0..MaxComments }

InitRank ==
    /\ BatchIdle
    /\ unit \in [fn : {"top_comments"}, comments : Discussions,
                  config : [download_comments : BOOLEAN,
                            max_comments : 0..(MaxComments + 1)]]
    /\ out = [at |-> "call", comments |-> <<>>]

\* the conversion builds the post's comments
Rank ==
    /\ out.at = "call"
    /\ out' = [at |-> "ranked",
               comments |-> top_comments([comments |-> unit.comments], unit.config)]
    /\ UNCHANGED <<unit, batchVars>>

NextRank == Rank

SpecRank == InitRank /\ [][NextRank]_vars

\* --------------------------------------- RedditHandler._generate_summary
\* Bluesky's post length, the `250` of the two length tests
SummaryLimit == 250

\* characters kept ahead of the "..." marker, the `247` of the two slices
SummaryKept == 247

\* a string by its origin: the len characters of the source string src that
\* start at offset from, followed by "..." when dots
Str(src, from, len, dots) == [src |-> src, from |-> from, len |-> len, dots |-> dots]

\* a whole source string of n characters
Whole(src, n) == Str(src, 0, n, FALSE)

\* len(s)
StrLen(s) == s.len + (IF s.dots THEN 3 ELSE 0)

\* s[:n], for s without marker
Prefix(s, n) == [s EXCEPT !.len = Min(n, s.len)]

\* s + "..."
Ellipsis(s) == [s EXCEPT !.dots = TRUE]

\* s.strip(), for a whole string with lead leading and trail trailing
\* whitespace characters
Strip(s, lead, trail) == [s EXCEPT !.from = lead, !.len = s.len - lead - trail]

\* truncate as it would be with the slice taken at the limit itself
truncate_at_limit(summary) ==
    IF StrLen(summary) > SummaryLimit THEN Ellipsis(Prefix(summary, SummaryLimit))
    ELSE summary

\* `if len(summary) > 250: summary = summary[:247] + "..."`
truncate(summary) ==
    IF StrLen(summary) > SummaryLimit THEN Ellipsis(Prefix(summary, SummaryKept))
    ELSE summary

\* fallback as it would be with the length test at the slice length
fallback_early(title) ==
    IF StrLen(title) > SummaryKept THEN Ellipsis(Prefix(title, SummaryKept))
    ELSE title

\* the except branch: `f"{title[:247]}..." if len(title) > 250 else title`
fallback(title) ==
    IF StrLen(title) > SummaryLimit THEN Ellipsis(Prefix(title, SummaryKept))
    ELSE title

\* _generate_summary: api is what the chat completion call does: it raises,
\* it answers without content (content None: .strip() raises
\* AttributeError), or it answers with a text
generate_summary(title, api) ==
    IF api.kind = "text"
    THEN truncate(Strip(Whole("content", api.len), api.lead, api.trail))
    ELSE fallback(title)

\* title lengths around the limit
Titles == { Whole("title", n) : n \in {0, 1, 246, 247, 248, 249, 250, 251, 300} }

\* what the summarization call can do
Completions ==
    { [kind |-> k, len |-> 0, lead |-> 0, trail |-> 0] : k \in {"raise", "none"} } \cup
    { [kind |-> "text", len |-> n, lead |-> l, trail |-> t] :
        n \in {3, 120, 250, 251, 252, 253, 254, 400}, l \in {0, 1}, t \in {0, 2} }

InitSummary ==
    /\ BatchIdle
    /\ unit \in [fn : {"_generate_summary"}, title : Titles, api : Completions]
    /\ out = [at |-> "call", summary |-> None]

GenerateSummary ==
    /\ out.at = "call"
    /\ out' = [at |-> "returned", summary |-> generate_summary(unit.title, unit.api)]
    /\ UNCHANGED <<unit, batchVars>>

NextSummary == GenerateSummary

SpecSummary == InitSummary /\ [][NextSummary]_vars

\* the names among those studied that match Reddit's naming rule, the
\* regular expression ^[A-Za-z0-9][A-Za-z0-9_]{2,20}$
WellFormedNames == {"pics"}

\* validators.validate_subreddit_name: "ok", or the ValidationError it raises
validate_subreddit_name(name) ==
    IF name = "" THEN "Subreddit name is required"
    ELSE IF name \notin WellFormedNames THEN "Invalid subreddit name"
    ELSE "ok"

\* ------------------------------ reddit-main.main: one record of the file
\* the records studied: every filter type and time filter, known or not,
\* and limits around the accepted range
PolicyRecords ==
    { SubredditConfig(name, filter_type, time_filter, limit, TRUE, FALSE, 0, FALSE) :
        name \in {"pics", "", "a!"},
        filter_type \in valid_filter_types \cup {"best"},
        time_filter \in {None, "", "day", "all", "decade"},
        limit \in {0, 1, 100, 101} }

\* what the source can answer for one feed: it is unavailable, or it yields
\* no submission or one
PolicySources ==
    [available : BOOLEAN,
     listing : { <<>>,
                 << WithId([url |-> ImageUrl, comments |-> <<>>, broken |-> FALSE,
                            is_gallery |-> FALSE, gallery_data |-> NoGallery], 1) >> }]

NotFetched == [raised |-> FALSE, error |-> None, posts |-> 0]

InitPolicy ==
    /\ BatchIdle
    /\ unit \in [fn : {"validate"}, config : PolicyRecords]
    /\ out = [at |-> "validate", verdict |-> None, fetch |-> NotFetched]

\* the validation loop's body: config.validate(); a ValidationError is
\* logged and the record is skipped
ValidatePolicy ==
    /\ out.at = "validate"
    /\ LET verdict == validate(unit.config)
       IN  out' = [out EXCEPT !.verdict = verdict,
                              !.at = IF verdict = "ok" THEN "feed" ELSE "rejected"]
    /\ UNCHANGED <<unit, batchVars>>

\* the feed loop's body for a validated record: get_subreddit_posts
FetchPolicy ==
    /\ out.at = "feed"
    /\ \E source \in PolicySources :
         LET got == get_subreddit_posts(unit.config, source)
         IN  out' = [out EXCEPT !.at = "fetched",
                                !.fetch = [raised |-> got.raised, error |-> got.error,
                                           posts |-> Len(got.posts)]]
    /\ UNCHANGED <<unit, batchVars>>

NextPolicy ==
    \/ ValidatePolicy
    \/ FetchPolicy

SpecPolicy == InitPolicy /\ [][NextPolicy]_vars

\* ------------------------------------- post_finder.find_post_and_media
\* post directories under downloads/
MaxBundles == 2

\* entries of one media/ directory
MaxMedia == 2

\* post-summary.txt of a post directory: absent, unreadable (open or read
\* raises), blank, a text, or a text with whitespace around it
SummaryFiles ==
    { [exists |-> FALSE, readable |-> TRUE, len |-> 0, lead |-> 0, trail |-> 0],
      [exists |-> TRUE, readable |-> FALSE, len |-> 40, lead |-> 0, trail |-> 0],
      [exists |-> TRUE, readable |-> TRUE, len |-> 2, lead |-> 2, trail |-> 0],
      [exists |-> TRUE, readable |-> TRUE, len |-> 40, lead |-> 0, trail |-> 0],
      [exists |-> TRUE, readable |-> TRUE, len |-> 40, lead |-> 1, trail |-> 1] }

\* a post directory as the publisher reads it: its summary file and the
\* number of entries of its media/ directory (0: empty or missing)
Bundles == [summary : SummaryFiles, media : 0..MaxMedia]

\* downloads/ is missing
NoRoot == [exists |-> FALSE, bundles |-> <<>>]

\* downloads/ holds no post directory
EmptyRoot == [exists |-> TRUE, bundles |-> <<>>]

\* f.read().strip() of the summary of the i-th directory os.walk visits
summary_content(bundles, i) ==
    Strip(Whole(i, bundles[i].summary.len), bundles[i].summary.lead,
          bundles[i].summary.trail)

RECURSIVE first_summary_or_media(_, _)
\* first_summary as it would be if a directory with media and no summary
\* file were taken as well
first_summary_or_media(bundles, i) ==
    IF i > Len(bundles) THEN [dir |-> 0, read |-> TRUE]
    ELSE IF ~bundles[i].summary.exists /\ bundles[i].media = 0
         THEN first_summary_or_media(bundles, i + 1)
    ELSE IF ~bundles[i].summary.readable THEN [dir |-> i, read |-> FALSE]
    ELSE IF bundles[i].summary.exists /\ StrLen(summary_content(bundles, i)) = 0
         THEN first_summary_or_media(bundles, i + 1)
    ELSE [dir |-> i, read |-> TRUE]

RECURSIVE first_summary(_, _)
\* the os.walk loop from the i-th directory on: the directory the loop
\* leaves at (0: the loop ends without one), and whether its summary was read
first_summary(bundles, i) ==
    IF i > Len(bundles) THEN [dir |-> 0, read |-> TRUE]
    ELSE IF ~bundles[i].summary.exists THEN first_summary(bundles, i + 1)
    ELSE IF ~bundles[i].summary.readable THEN [dir |-> i, read |-> FALSE]
    ELSE IF StrLen(summary_content(bundles, i)) = 0 THEN first_summary(bundles, i + 1)
    ELSE [dir |-> i, read |-> TRUE]

\* media_file = None
NoMediaFile == [dir |-> 0, entry |-> 0]

\* find_post_and_media returned None
NotFound == [dir |-> 0, content |-> Whole(0, 0), media_file |-> NoMediaFile]

\* find_post_and_media; glob_first is the entry media_dir.glob('*') lists first
find_post_and_media(root, glob_first) ==
    IF ~root.exists THEN NotFound
    ELSE LET at == first_summary(root.bundles, 1)
         IN  IF at.dir = 0 \/ ~at.read THEN NotFound
             ELSE [dir |-> at.dir,
                   content |-> summary_content(root.bundles, at.dir),
                   media_file |-> IF root.bundles[at.dir].media = 0 THEN NoMediaFile
                                  ELSE [dir |-> at.dir,
                                        entry |-> Min(glob_first, root.bundles[at.dir].media)]]

\* --------------------------- main.run_scripts and bluesky-main.main
\* a run of the scheduler: out.at is the position of run_scripts,
\* out.producer and out.publisher the state of the two child processes,
\* out.root the downloads directory, out.staged what it held when the
\* publisher started, out.found the result of find_post_and_media,
\* out.posted the posts created, out.rmtree the state of the cleanup and
\* out.ret the value run_scripts returns
InitPublish ==
    /\ BatchIdle
    /\ unit = [fn |-> "run_scripts"]
    /\ \E root \in {NoRoot, EmptyRoot} :
         out = [at |-> "start", producer |-> "idle", publisher |-> "idle",
                root |-> root, staged |-> root, found |-> NotFound, posted |-> 0,
                rmtree |-> "not_run", ret |-> "pending"]

\* run_script('reddit-main.py'): subprocess.run starts the producer, or
\* raises and run_script returns False
StartProducer ==
    /\ out.at = "start"
    /\ \E ok \in BOOLEAN :
         out' = IF ok THEN [out EXCEPT !.at = "producer", !.producer = "running"]
                      ELSE [out EXCEPT !.at = "returned", !.producer = "unstartable",
                                       !.ret = "False"]
    /\ UNCHANGED <<unit, batchVars>>

\* the running producer leaves one more post directory under downloads/
StageBundle ==
    /\ out.producer = "running"
    /\ Len(out.root.bundles) < MaxBundles
    /\ \E b \in Bundles :
         out' = [out EXCEPT !.root = [exists |-> TRUE,
                                      bundles |-> Append(out.root.bundles, b)]]
    /\ UNCHANGED <<unit, batchVars>>

\* the producer process ends, with return code 0 or not
ProducerExits ==
    /\ out.producer = "running"
    /\ \E rc \in {0, 1} :
         out' = [out EXCEPT !.producer = IF rc = 0 THEN "exit0" ELSE "exit1"]
    /\ UNCHANGED <<unit, batchVars>>

\* ProducerReturns as it would be with the producer's result ignored
ProducerReturnsIgnored ==
    /\ out.at = "producer"
    /\ out.producer \in {"exit0", "exit1"}
    /\ out' = [out EXCEPT !.at = "sleep"]
    /\ UNCHANGED <<unit, batchVars>>

\* subprocess.run returns: run_script gives returncode == 0, and
\* run_scripts returns False on a failed producer
ProducerReturns ==
    /\ out.at = "producer"
    /\ out.producer \in {"exit0", "exit1"}
    /\ out' = IF out.producer = "exit0"
              THEN [out EXCEPT !.at = "sleep"]
              ELSE [out EXCEPT !.at = "returned", !.ret = "False"]
    /\ UNCHANGED <<unit, batchVars>>

\* time.sleep(5), then run_script('bluesky-main.py')
StartPublisher ==
    /\ out.at = "sleep"
    /\ \E ok \in BOOLEAN :
         out' = IF ok THEN [out EXCEPT !.at = "publisher", !.publisher = "credentials",
                                       !.staged = out.root]
                      ELSE [out EXCEPT !.at = "returned", !.publisher = "unstartable",
                                       !.ret = "False"]
    /\ UNCHANGED <<unit, batchVars>>

\* a step of the publisher that succeeds and goes on at next, or raises: the
\* exception leaves main and the process ends with a non-zero return code
PublisherStep(at, next) ==
    /\ out.publisher = at
    /\ \E ok \in BOOLEAN :
         out' = [out EXCEPT !.publisher = IF ok THEN next ELSE "exit1"]
    /\ UNCHANGED <<unit, batchVars>>

\* load_dotenv and the two credentials: ValueError when one is missing
LoadCredentials == PublisherStep("credentials", "login")

\* client.login
Login == PublisherStep("login", "find")

\* find_post_and_media: with no result main returns, without cleanup
FindPostAndMedia ==
    /\ out.publisher = "find"
    /\ \E glob_first \in 1..MaxMedia :
         LET answer == find_post_and_media(out.root, glob_first)
         IN  out' = [out EXCEPT !.found = answer,
                                !.publisher = IF answer.dir = 0 THEN "exit0"
                                              ELSE IF answer.media_file.dir # 0 THEN "image"
                                              ELSE "send"]
    /\ UNCHANGED <<unit, batchVars>>

\* process_image: None (any PIL failure) raises RuntimeError
ProcessImage == PublisherStep("image", "upload")

\* client.upload_blob
UploadBlob == PublisherStep("upload", "send")

\* SendPost as it would be with the cleanup run after a failed send as well
SendPostAlwaysCleans ==
    /\ out.publisher = "send"
    /\ \E ok \in BOOLEAN :
         out' = [out EXCEPT !.publisher = "cleanup",
                            !.posted = IF ok THEN out.posted + 1 ELSE out.posted]
    /\ UNCHANGED <<unit, batchVars>>

\* client.send_post, with or without embed: a response with a uri, or an
\* exception (raised by the call, or RuntimeError for a response without uri)
SendPost ==
    /\ out.publisher = "send"
    /\ \E ok \in BOOLEAN :
         out' = IF ok THEN [out EXCEPT !.publisher = "cleanup", !.posted = out.posted + 1]
                      ELSE [out EXCEPT !.publisher = "exit1"]
    /\ UNCHANGED <<unit, batchVars>>

\* what a failing shutil.rmtree can leave of the post directories
Leftovers(bundles) == { SubSeq(bundles, k, Len(bundles)) : k \in 1..(Len(bundles) + 1) }

\* CleanupDownloads as it would be if only the published post directory
\* were removed
CleanupPublishedOnly ==
    /\ out.publisher = "cleanup"
    /\ out' = [out EXCEPT !.publisher = "exit0", !.rmtree = "done",
                  !.root.bundles = SubSeq(out.root.bundles, 1, out.found.dir - 1)
                                   \o SubSeq(out.root.bundles, out.found.dir + 1,
                                             Len(out.root.bundles))]
    /\ UNCHANGED <<unit, batchVars>>

\* cleanup_downloads: rmtree of downloads/ and makedirs of an empty one;
\* either may raise, and the exception is re-raised
CleanupDownloads ==
    /\ out.publisher = "cleanup"
    /\ \/ out' = [out EXCEPT !.publisher = "exit0", !.rmtree = "done", !.root = EmptyRoot]
       \/ out' = [out EXCEPT !.publisher = "exit1", !.rmtree = "done", !.root = NoRoot]
       \/ \E left \in Leftovers(out.root.bundles) :
            out' = [out EXCEPT !.publisher = "exit1", !.rmtree = "failed",
                               !.root.bundles = left]
    /\ UNCHANGED <<unit, batchVars>>

\* subprocess.run returns for the publisher: run_scripts returns whether
\* its return code was 0
PublisherReturns ==
    /\ out.at = "publisher"
    /\ out.publisher \in {"exit0", "exit1"}
    /\ out' = [out EXCEPT !.at = "returned",
                          !.ret = IF out.publisher = "exit0" THEN "True" ELSE "False"]
    /\ UNCHANGED <<unit, batchVars>>

NextPublish ==
    \/ StartProducer
    \/ StageBundle
    \/ ProducerExits
    \/ ProducerReturns
    \/ StartPublisher
    \/ LoadCredentials
    \/ Login
    \/ FindPostAndMedia
    \/ ProcessImage
    \/ UploadBlob
    \/ SendPost
    \/ CleanupDownloads
    \/ PublisherReturns

SpecPublish == InitPublish /\ [][NextPublish]_vars

\* ----------------------------------------------------------------- claims
Range(q) == { q[i] : i \in DOMAIN q }

\* the run is inside a download_content call, or at its end
InCall ==
    pc \in {"date_dir", "post_dir", "post_info", "title", "url", "comments",
            "summary", "media_dir", "media", "finalize", "except", "exit"}

\* download_content has returned a DownloadResult to main
Returned == pc = "exit" /\ result.status = "returned"

\* the post loop of a fetched feed is running or has just ended
InPostLoop == pc = "posts" \/ InCall

\* C1, as claimed: on every path through download_content that returns
\* (normally or through the outer handler), if skip_no_media is true and no
\* media was retrieved, then the post directory does not exist and the
\* outcome is success=true with no files and no errors.
C1_DiscardOnEveryPath ==
    (Returned /\ discards) =>
        /\ ~post_dir.exists
        /\ result = DownloadResult(TRUE, <<>>, <<>>)

\* C1, amended: if skip_no_media is true, no media was retrieved and no
\* exception was raised outside the media retrieval step, then when
\* download_content returns the post directory does not exist and the outcome
\* is success=true with no files and no errors.
C1_DiscardOnNormalPath ==
    (Returned /\ exc = None /\ discards) =>
        /\ ~post_dir.exists
        /\ result = DownloadResult(TRUE, <<>>, <<>>)

\* a post whose text artifacts were written and whose media retrieval raised
\* has been discarded with an empty success
C1_Witness ==
    /\ Returned /\ exc = None /\ discards
    /\ "url.txt" \in Range(downloaded_files)
    /\ errors # <<>>
    /\ result.errors = <<>>

\* C2, as claimed: download_content never raises; every call ends by
\* returning a DownloadResult.
C2_NeverRaises == pc = "exit" => result.status = "returned"

\* C3: in the post loop of a feed whose fetch returned posts, the ids
\* download_content has been invoked with, followed by the ids of the posts
\* still to come, are exactly the fetched ids in source order, whatever the
\* earlier calls' outcomes; and a run that completes has fetched every
\* validated feed.
C3_PostIsolation ==
    /\ InPostLoop =>
         calls \o [i \in 1..Len(posts) |-> posts[i].id]
            = [i \in 1..Len(listing) |-> listing[i].id]
    /\ pc = "done" => fetched = validated

\* the post loop has ended after two calls, one of which failed or raised
C3_Witness ==
    /\ pc = "posts" /\ posts = <<>>
    /\ calls = <<1, 2>>
    /\ failed >= 1

\* C4, as claimed: no raw feed record, however it is rejected, aborts the
\* run, and a run that completes has fetched every validated feed.
C4_FeedIsolation ==
    /\ pc # "aborted"
    /\ pc = "done" => fetched = validated

\* C5, as claimed: when a feed's processing ends, every item the source
\* yielded whose own conversion does not fail was passed to download_content.
C5_AllItemsAttempted ==
    (pc = "feed_failed" \/ (pc = "posts" /\ posts = <<>>)) =>
        \A i \in 1..Len(listing) :
            ~listing[i].broken => listing[i].id \in Range(calls)

\* C6, as claimed: in every state, if post-summary.txt exists in the bundle
\* directory then media retrieval has completed and the discard decision has
\* been taken.
C6_SummaryMeansFinal ==
    "post-summary.txt" \in post_dir.files => pc = "exit"

\* C6, amended: once download_content has returned success=true, if
\* post-summary.txt exists in the bundle directory then the bundle is final:
\* the media step is over (the media directory exists when the post has a
\* URL) and the bundle is not one the discard rule deletes.
C6_SummaryFinalAfterReturn ==
    (Returned /\ result.success /\ "post-summary.txt" \in post_dir.files) =>
        /\ ~discards
        /\ post.url.present => "media" \in post_dir.files
        /\ result.downloaded_files = downloaded_files

\* a retained bundle with a summary and a media file
C6_Witness ==
    /\ Returned /\ result.success
    /\ "post-summary.txt" \in post_dir.files
    /\ "media/file" \in post_dir.files

\* C7: whenever the media step has begun (the media directory exists, the
\* retrieval is about to run or has run) the three text artifacts are
\* written; and at the keep-or-delete decision the summary is written unless
\* the discussion step was skipped.
C7_TextBeforeMedia ==
    /\ (pc = "media" \/ retrievals > 0 \/ "media" \in post_dir.files) =>
         TextArtifacts \subseteq Range(downloaded_files)
    /\ pc = "media" => TextArtifacts \subseteq post_dir.files
    /\ pc = "finalize" =>
         /\ TextArtifacts \subseteq Range(downloaded_files)
         /\ saves_comments => "post-summary.txt" \in post_dir.files

\* the keep-or-delete decision is reached after a retrieval call, with the
\* summary written
C7_Witness ==
    /\ pc = "finalize"
    /\ retrievals = 1
    /\ "post-summary.txt" \in post_dir.files

\* C8, as claimed: for a retained bundle, comments.txt and post-summary.txt
\* are both written if and only if download_comments is true and
\* max_comments > 0.
C8_DiscussionIffEnabled ==
    (Returned /\ result.success /\ post_dir.exists) =>
        ({"comments.txt", "post-summary.txt"} \subseteq post_dir.files
            <=> (config.download_comments /\ config.max_comments > 0))

\* C9, as claimed: when download_media is false, no media directory is
\* created, no retrieval call is made and no media file is written.
C9_MediaGated ==
    (InCall /\ ~config.download_media) =>
        /\ retrievals = 0
        /\ "media" \notin post_dir.files
        /\ ~has_media

\* C10, as claimed: whenever download_content returns success=false the post
\* directory does not exist, for both values of skip_no_media.
C10_FailureLeavesNothing ==
    (Returned /\ ~result.success) => ~post_dir.exists

\* C10, amended: whenever download_content returns success=false, the post
\* directory does not exist if skip_no_media is true, and is left on disk
\* with what was written so far if skip_no_media is false.
C10_FailureCleanupByPolicy ==
    (Returned /\ ~result.success) =>
        /\ config.skip_no_media => ~post_dir.exists
        /\ ~config.skip_no_media =>
             /\ post_dir.exists
             /\ Range(downloaded_files) \subseteq post_dir.files

\* a failed post whose partial bundle was removed
C10_Witness ==
    /\ Returned /\ ~result.success
    /\ config.skip_no_media
    /\ downloaded_files # <<>>
    /\ ~post_dir.exists

\* the post directory has been created by the current call
DirCreated ==
    pc \in {"post_info", "title", "url", "comments", "summary", "media_dir",
            "media", "finalize", "except"} \/ Returned

\* C11: after download_content returns, if a media file was retrieved or
\* skip_no_media is false the post directory still exists; and once the call
\* has created the post directory, the directory is gone only if
\* skip_no_media is true and no media was retrieved.
C11_BundleRetention ==
    /\ (Returned /\ (has_media \/ ~config.skip_no_media)) => post_dir.exists
    /\ (DirCreated /\ ~post_dir.exists) => discards

\* a bundle kept without media after a retrieval attempt, skip_no_media false
C11_Witness ==
    /\ Returned /\ ~config.skip_no_media /\ ~has_media
    /\ retrievals = 1
    /\ post_dir.exists

\* an exception left a step of download_content: it travelled to the outer
\* handler, or it reached the caller
ExceptionOccurred == exc # None \/ result.status = "raised"

\* C12, as claimed: when an exception occurs in any step of download_content,
\* the call returns an outcome with success=false whose errors are exactly
\* the exception message, and the directory is gone exactly under the
\* discard condition.
C12_OuterHandlerOutcome ==
    (pc = "exit" /\ ExceptionOccurred) =>
        /\ result.status = "returned"
        /\ ~result.success
        /\ result.errors = <<exc>>
        /\ post_dir.exists <=> ~discards

\* the media step of the current call was reached and urlparse rejected the
\* post's URL there
MediaRetrievalRaised ==
    /\ media_strategy(post) = "raise"
    /\ "media" \in post_dir.files

\* C13: if media retrieval raised for a post with skip_no_media false, the
\* call returns success=true, the returned downloaded_files hold every text
\* artifact written before, and errors holds exactly one entry, describing
\* the media failure; nothing reaches the caller.
C13_MediaFailureTolerated ==
    (pc = "exit" /\ ~config.skip_no_media /\ MediaRetrievalRaised) =>
        /\ Returned
        /\ result.success
        /\ result.errors = <<"Media download error: ValueError">>
        /\ post_dir.files \ {"media"} \subseteq Range(result.downloaded_files)
        /\ TextArtifacts \subseteq Range(result.downloaded_files)

\* a post with a discussion whose media retrieval raised: five text
\* artifacts returned with the one media error
C13_Witness ==
    /\ Returned /\ ~config.skip_no_media /\ MediaRetrievalRaised
    /\ Len(result.downloaded_files) = 5
    /\ Len(result.errors) = 1

\* C14, as claimed: when _download_image has returned after a non-200
\* response or a failure of the network or of a write, including one after
\* some chunks were written, the result is empty and the media directory
\* holds no file for the item.
C14_SucceedFullyOrRemove ==
    (unit.fn = "_download_image" /\ out.at = "returned" /\ out.failed) =>
        /\ out.file_path = None
        /\ ~out.file.exists

\* the chain has run for a post
Classified == unit.fn = "media_strategy" /\ out.at = "classified"

IsGalleryPost == unit.post.is_gallery /\ unit.post.gallery_data.present

HasImageExt == unit.post.url.ext \in {".jpg", ".jpeg", ".png", ".gif"}

HasVideoExt == unit.post.url.ext \in {".mp4", ".webm", ".mov"}

\* the URL matches no external host pattern and urlparse accepts it
Plain == ~unit.post.url.external /\ unit.post.url.parses

\* C15, as claimed: for a post whose URL parses, the strategy chosen is
\* ExternalHosted if the URL matches an external host pattern, else Gallery
\* if the post is a gallery with gallery data, else DirectImage if the path
\* ends in an image extension, else Video if it ends in a video extension,
\* else None.
C15_GalleryBeforeImage ==
    (Classified /\ unit.post.url.parses) =>
        out.strategy =
            IF unit.post.url.external THEN "yt_dlp"
            ELSE IF IsGalleryPost THEN "gallery"
            ELSE IF HasImageExt THEN "image"
            ELSE IF HasVideoExt THEN "video"
            ELSE "none"

\* C15, amended: the strategy is ExternalHosted exactly for the URLs matching
\* an external host pattern; among the others, the chain raises exactly when
\* urlparse rejects the URL, and otherwise chooses DirectImage exactly for
\* an image extension (gallery post or not), Gallery exactly for the
\* remaining gallery posts with gallery data, Video exactly for the
\* remaining URLs with a video extension, and None for the rest.
C15_ImageBeforeGallery ==
    Classified =>
        /\ out.strategy = "yt_dlp" <=> unit.post.url.external
        /\ out.strategy = "raise" <=> (~unit.post.url.external /\ ~unit.post.url.parses)
        /\ out.strategy = "image" <=> (Plain /\ HasImageExt)
        /\ out.strategy = "gallery" <=> (Plain /\ ~HasImageExt /\ IsGalleryPost)
        /\ out.strategy = "video" <=>
              (Plain /\ ~HasImageExt /\ ~IsGalleryPost /\ HasVideoExt)
        /\ out.strategy = "none" <=>
              (Plain /\ ~HasImageExt /\ ~IsGalleryPost /\ ~HasVideoExt)

\* a gallery post whose URL ends in .png has been classified as DirectImage
C15_Witness ==
    /\ Classified /\ IsGalleryPost
    /\ Plain
    /\ unit.post.url.ext = ".png"
    /\ out.strategy = "image"

\* the non-stickied comments of the discussion
NonPinned == { c \in Range(unit.comments) : ~c.stickied }

\* a ranks ahead of b: a higher score, or the same score and fetched earlier
Before(a, b) == a.score > b.score \/ (a.score = b.score /\ a.body < b.body)

SummaryReturned == unit.fn = "_generate_summary" /\ out.at = "returned"

\* C17: for every title and whatever the summarization call does (an answer
\* of any length, an answer without content, an exception), the string
\* _generate_summary returns has at most 250 characters.
C17_SynopsisBound ==
    SummaryReturned => StrLen(out.summary) <= 250

\* an answer of 400 characters came back cut to exactly 250
C17_Witness ==
    /\ SummaryReturned
    /\ unit.api.kind = "text" /\ unit.api.len = 400
    /\ StrLen(out.summary) = 250
    /\ out.summary.dots

\* C18: whenever the summarization call fails, _generate_summary returns the
\* title itself if the title has at most 250 characters, and otherwise the
\* first 247 characters of the title followed by "...".
C18_FallbackCorrect ==
    (SummaryReturned /\ unit.api.kind # "text") =>
        out.summary = IF unit.title.len <= 250
                      THEN unit.title
                      ELSE [src |-> "title", from |-> 0, len |-> 247, dots |-> TRUE]

\* the call raised for a title of 300 characters: its first 247 characters
\* and the marker came back
C18_Witness ==
    /\ SummaryReturned
    /\ unit.api.kind = "raise"
    /\ unit.title.len = 300
    /\ out.summary = [src |-> "title", from |-> 0, len |-> 247, dots |-> TRUE]

\* the record has been through validation
PolicyChecked == unit.fn = "validate" /\ out.at # "validate"

\* the record passed validation and is used for a fetch
PolicyAccepted == unit.fn = "validate" /\ out.at \in {"feed", "fetched"}

\* C19: a record with filter type top whose time filter is missing or not
\* one of all, day, hour, month, week, year is rejected by validation with a
\* ValidationError, and the source is never asked for its posts.
C19_TopNeedsWindow ==
    (PolicyChecked /\ unit.config.filter_type = "top"
        /\ unit.config.time_filter \notin {"all", "day", "hour", "month", "week", "year"}) =>
        /\ out.at = "rejected"
        /\ out.verdict \in {"Time filter is required for top posts",
                             "Subreddit name is required"}
        /\ out.fetch = NotFetched

\* a top record with the unknown window "decade" has been rejected for its
\* time filter
C19_Witness ==
    /\ PolicyChecked
    /\ unit.config.filter_type = "top" /\ unit.config.time_filter = "decade"
    /\ out.at = "rejected"
    /\ out.verdict = "Time filter is required for top posts"

\* C20, as claimed: every record that passes validation has a time filter
\* set if and only if its filter type is top.
C20_WindowIffTop ==
    PolicyAccepted =>
        (unit.config.time_filter \notin {None, ""} <=> unit.config.filter_type = "top")

\* C20, amended: every record that passes validation with filter type top
\* has a valid time filter; and for the filter types hot, new and rising the
\* verdict of validation does not depend on the time filter, so such a
\* record with a time filter set passes when its other fields are valid.
C20_WindowValidForTop ==
    /\ (PolicyAccepted /\ unit.config.filter_type = "top") =>
          unit.config.time_filter \in valid_time_filters
    /\ (PolicyChecked /\ unit.config.filter_type \in {"hot", "new", "rising"}) =>
          (out.verdict = "ok" <=> (unit.config.name # "" /\ unit.config.limit >= 1))

\* a hot record with the time filter "day" has passed validation and its
\* posts were fetched
C20_Witness ==
    /\ PolicyAccepted /\ out.at = "fetched"
    /\ unit.config.filter_type = "hot" /\ unit.config.time_filter = "day"
    /\ out.fetch.posts = 1

\* C21, as claimed: every record the batch runner issues a source fetch for
\* has a non-empty name matching the naming rule, a limit in 1..100, a batch
\* size >= 1 and a timeout in 1..300.
C21_BoundsBeforeFetch ==
    (unit.fn = "validate" /\ out.at = "fetched") =>
        /\ validate_subreddit_name(unit.config.name) = "ok"
        /\ unit.config.limit \in 1..100
        /\ unit.config.batch_size >= 1
        /\ unit.config.timeout \in 1..300

\* the publisher process has been started in this run
PublisherStarted == unit.fn = "run_scripts" /\ out.publisher \notin {"idle", "unstartable"}

\* the publisher process has ended
PublisherEnded == unit.fn = "run_scripts" /\ out.publisher \in {"exit0", "exit1"}

\* C22, as claimed: when a run of the publisher has ended, downloads/ has
\* been removed if and only if a post was created, and without a created
\* post every staged post directory is as it was.
C22_ClearedIffPosted ==
    PublisherEnded =>
        /\ out.rmtree = "done" <=> out.posted > 0
        /\ out.posted = 0 => out.root = out.staged

\* C22, amended: the cleanup runs only after a post was created, and up to
\* then downloads/ is as the publisher found it; a run that created a post
\* and ended with return code 0 has removed downloads/ and recreated it
\* empty; a run that created a post and whose cleanup failed has ended with
\* a non-zero return code.
C22_ClearedOnlyAfterPost ==
    PublisherStarted =>
        /\ out.rmtree # "not_run" => out.posted > 0
        /\ out.rmtree = "not_run" => out.root = out.staged
        /\ (out.publisher = "exit0" /\ out.posted > 0) =>
              (out.rmtree = "done" /\ out.root = EmptyRoot)
        /\ (PublisherEnded /\ out.posted > 0 /\ out.root # EmptyRoot) =>
              out.publisher = "exit1"

\* a run that found a summary with a media file and then failed before a
\* post was created: the two staged post directories are still there
C22_Witness ==
    /\ PublisherEnded /\ out.publisher = "exit1"
    /\ out.found.media_file.dir # 0
    /\ out.posted = 0 /\ out.rmtree = "not_run"
    /\ Len(out.staged.bundles) = 2
    /\ out.root = out.staged

\* find_post_and_media has returned a result to the publisher
Found == PublisherStarted /\ out.found.dir # 0

\* the i-th staged post directory holds a summary that reads as a non-empty
\* text
Publishable(i) ==
    /\ out.staged.bundles[i].summary.exists
    /\ out.staged.bundles[i].summary.readable
    /\ out.staged.bundles[i].summary.len
         > out.staged.bundles[i].summary.lead + out.staged.bundles[i].summary.trail

\* C23: what find_post_and_media returns comes from one post directory that
\* holds post-summary.txt: the text is that file's content (without the
\* whitespace around it) and is not empty, and the media file, if any, is an
\* entry of the media/ directory of the same post directory; when no post
\* directory holds a non-empty summary nothing is returned.
C23_Discovery ==
    /\ Found =>
         /\ out.found.dir \in 1..Len(out.staged.bundles)
         /\ Publishable(out.found.dir)
         /\ out.found.content.src = out.found.dir
         /\ out.found.content.from = out.staged.bundles[out.found.dir].summary.lead
         /\ StrLen(out.found.content)
              = out.staged.bundles[out.found.dir].summary.len
                - out.staged.bundles[out.found.dir].summary.lead
                - out.staged.bundles[out.found.dir].summary.trail
         /\ out.found.media_file.dir \in {0, out.found.dir}
         /\ out.found.media_file.dir # 0 =>
              out.found.media_file.entry \in 1..out.staged.bundles[out.found.dir].media
    /\ (PublisherStarted /\ out.publisher \notin {"credentials", "login", "find", "exit1"}
          /\ \A i \in 1..Len(out.staged.bundles) : ~Publishable(i)) =>
         (out.found = NotFound /\ out.posted = 0)

\* a post directory with media and no summary was passed over, and the
\* text and a media file of the next post directory were returned
C23_Witness ==
    /\ Found /\ out.found.dir = 2
    /\ ~out.staged.bundles[1].summary.exists
    /\ out.staged.bundles[1].media > 0
    /\ out.found.media_file.dir = 2
    /\ out.found.content.from = 1

\* C24: the publisher is started only after the producer has ended with
\* return code 0, the two processes never run at the same time, and when
\* the producer failed or could not be started run_scripts returns False
\* without having started the publisher.
C24_ProducerThenPublisher ==
    unit.fn = "run_scripts" =>
        /\ out.publisher # "idle" => out.producer = "exit0"
        /\ ~(out.producer = "running" /\ PublisherStarted /\ ~PublisherEnded)
        /\ out.producer \in {"exit1", "unstartable"} =>
              /\ out.publisher = "idle"
              /\ out.at = "returned" => out.ret = "False"
        /\ out.ret = "True" => (out.producer = "exit0" /\ out.publisher = "exit0")

\* the producer staged a post directory and failed: run_scripts has
\* returned False and the publisher never ran
C24_Witness ==
    /\ unit.fn = "run_scripts" /\ out.at = "returned"
    /\ out.producer = "exit1"
    /\ out.root.bundles # <<>>
    /\ out.publisher = "idle"
    /\ out.ret = "False"

====
